---- MODULE Spec2Model ----
(***************************************************************************)
(* Model of Backend/decision_simulator.py (Mneme): the DecisionSimulator   *)
(* object, its constructor, run_simulation and sensitivity_analysis; and   *)
(* of the request loop of Backend/bridge.py (SpecBridge).                  *)
(*                                                                         *)
(* Python floats are modelled as exact rationals <<numerator, denominator>>*)
(* in lowest terms with a positive denominator, so equalities below are    *)
(* equalities of real numbers (no rounding).  Python dicts are modelled as *)
(* functions together with the key order of their insertion where the code *)
(* depends on that order (max() and sorted() are order sensitive).         *)
(***************************************************************************)
EXTENDS Integers, Sequences, FiniteSets, TLC

\* ------------------------------------------------------------------------
\* Bounds of the model
\* ------------------------------------------------------------------------
\* number of sweep positions processed on one simulator, over all its
\* sensitivity_analysis calls
MaxSwept == 2
\* config.MAX_SIMULATION_RUNS is 10000; the model runs the same clamp with a
\* small ceiling so that requests below, at and above the ceiling all occur
MAX_SIMULATION_RUNS == 2

\* ------------------------------------------------------------------------
\* Exact rational arithmetic (stands for float arithmetic)
\* ------------------------------------------------------------------------
RECURSIVE GCD(_, _)
GCD(a, b) == IF b = 0 THEN a ELSE GCD(b, a % b)

Abs(x) == IF x < 0 THEN -x ELSE x

Rat(n, d) ==
    LET g == GCD(Abs(n), Abs(d))
        s == IF d < 0 THEN -1 ELSE 1
    IN  <<(s * n) \div g, (s * d) \div g>>

Zero == <<0, 1>>
One == <<1, 1>>
FromInt(i) == <<i, 1>>

\* the operations cancel common factors before multiplying, which keeps the
\* intermediate integers as small as the results allow
RAdd(a, b) ==
    LET g == GCD(a[2], b[2])
    IN  Rat(a[1] * (b[2] \div g) + b[1] * (a[2] \div g), (a[2] \div g) * b[2])
RMul(a, b) ==
    LET x == Rat(a[1], b[2])
        y == Rat(b[1], a[2])
    IN  <<x[1] * y[1], x[2] * y[2]>>
\* only used with b # Zero
RDiv(a, b) == RMul(a, Rat(b[2], b[1]))
RLt(a, b) ==
    LET g == GCD(a[2], b[2])
    IN  a[1] * (b[2] \div g) < b[1] * (a[2] \div g)
RLeq(a, b) == ~RLt(b, a)

\* sum(f.values()) of a dict modelled as a function
RECURSIVE RSumOver(_, _)
RSumOver(f, S) ==
    IF S = {} THEN Zero
    ELSE LET x == CHOOSE y \in S : TRUE
         IN  RAdd(f[x], RSumOver(f, S \ {x}))

RSum(f) == RSumOver(f, DOMAIN f)

Range(s) == {s[i] : i \in DOMAIN s}

\* ------------------------------------------------------------------------
\* Inputs: the decision snapshot handed to the constructor
\* ------------------------------------------------------------------------
Choice(i, n) == [id |-> i, name |-> n]
Factor(i, w) == [id |-> i, weight |-> w]
Score(c, f, s, u) == [choice_id |-> c, factor_id |-> f, score |-> s, uncertainty |-> u]

\* choice lists: ids are unique (database primary keys), names need not be
ChoiceLists ==
    { <<>>,
      <<Choice(1, "a")>>,
      <<Choice(1, "a"), Choice(2, "b")>>,
      <<Choice(2, "b"), Choice(1, "a")>>,
      <<Choice(1, "a"), Choice(2, "a")>> }

\* factor lists with raw weights (unique ids)
FactorLists ==
    { <<>>,
      <<Factor(1, 2)>>,
      <<Factor(1, 1), Factor(2, 3)>>,
      <<Factor(1, 0), Factor(2, 0)>> }

\* score lists: deterministic and uncertain entries, a missing entry, a
\* choice without any entry, a repeated (choice, factor) pair, a score
\* outside [0, 10] and a negative uncertainty
ScoreLists ==
    { <<Score(1, 1, 3, 0), Score(1, 1, 8, 0), Score(2, 1, 5, 0)>>,
      <<Score(1, 1, 8, 0), Score(1, 2, 2, 0), Score(2, 1, 2, 0), Score(2, 2, 8, 0)>>,
      <<Score(1, 1, 5, 1), Score(2, 1, 5, 0), Score(2, 2, 6, 0)>>,
      <<Score(1, 1, 12, 0), Score(2, 1, 5, -1)>>,
      <<Score(1, 1, 10, 0), Score(1, 2, 10, 0)>> }

\* values rng.normal may return before clamping: below and above [0, 10]
Draws == {-3, 13}

\* requested num_runs: negative, zero, below, at and above the ceiling
NumRunsArgs == -1 .. (MAX_SIMULATION_RUNS + 1)

\* arguments of sensitivity_analysis: factor 1 is the first factor of every
\* non-empty factor list, factor 3 is never a supplied factor
FactorArgs == {1, 3}
\* multipliers are positive, as in the default range (0.5, 2.0)
WeightRanges == { <<Rat(1, 2), FromInt(2)>>, <<Rat(1, 2), One>> }
\* steps: an empty sweep, a single multiplier (lo) and the two ends lo, hi
StepsArgs == {0, 1, 2}

VARIABLES
    choices,             \* the list given to the constructor
    factors,             \* the list given to the constructor
    scores,              \* self.scores: <<choice_id, factor_id>> -> Score
    normalized_weights,  \* self.normalized_weights: factor id -> rational
    swept,               \* sweep positions requested so far, over all calls
    last,                \* the last call made and its arguments
    outcome,             \* what that call returned or raised
    bridge               \* bridge.py: stdin, lines consumed, stdout, status

vars == <<choices, factors, scores, normalized_weights, swept, last, outcome,
          bridge>>

\* ------------------------------------------------------------------------
\* DecisionSimulator.__init__
\* ------------------------------------------------------------------------
\* key order of {c.id: c for c in choices}: first occurrence of each id
RECURSIVE KeyOrder(_)
KeyOrder(s) ==
    IF s = <<>> THEN <<>>
    ELSE LET init == KeyOrder(SubSeq(s, 1, Len(s) - 1))
             k == s[Len(s)]
         IN  IF k \in Range(init) THEN init ELSE Append(init, k)

ChoiceIdsOf(cs) == KeyOrder([i \in DOMAIN cs |-> cs[i].id])

\* self.choices[cid].name: the last Choice supplied with that id
NameOf(cs, cid) ==
    LET last_i == CHOOSE i \in DOMAIN cs :
                     /\ cs[i].id = cid
                     /\ \A j \in DOMAIN cs : cs[j].id = cid => j <= i
    IN  cs[last_i].name

\* _organize_scores: a later Score of the same (choice, factor) replaces an
\* earlier one
OrganizeScores(sl) ==
    LET keys == {<<sl[i].choice_id, sl[i].factor_id>> : i \in DOMAIN sl}
    IN  [k \in keys |->
            LET last_i == CHOOSE i \in DOMAIN sl :
                             /\ <<sl[i].choice_id, sl[i].factor_id>> = k
                             /\ \A j \in DOMAIN sl :
                                   <<sl[j].choice_id, sl[j].factor_id>> = k => j <= i
            IN  sl[last_i]]

RECURSIVE SumWeights(_)
SumWeights(fs) ==
    IF fs = <<>> THEN 0 ELSE fs[1].weight + SumWeights(Tail(fs))

\* NormalizeWeights whose fallback is the weight 1.0 for every factor
NormalizeWeights_FallbackOne(fs) ==
    LET total_weight == SumWeights(fs)
        ids == {fs[i].id : i \in DOMAIN fs}
        lastOf(fid) == CHOOSE i \in DOMAIN fs :
                          /\ fs[i].id = fid
                          /\ \A j \in DOMAIN fs : fs[j].id = fid => j <= i
    IN  [fid \in ids |->
            IF total_weight > 0
            THEN Rat(fs[lastOf(fid)].weight, total_weight)
            ELSE One]

\* the weight table built by the constructor
NormalizeWeights(fs) ==
    LET total_weight == SumWeights(fs)
        ids == {fs[i].id : i \in DOMAIN fs}
        lastOf(fid) == CHOOSE i \in DOMAIN fs :
                          /\ fs[i].id = fid
                          /\ \A j \in DOMAIN fs : fs[j].id = fid => j <= i
    IN  [fid \in ids |->
            IF total_weight > 0
            THEN Rat(fs[lastOf(fid)].weight, total_weight)
            ELSE Rat(1, Len(fs))]

NoCall == [op |-> "none"]
NoOutcome == [status |-> "none"]
\* no bridge process
NoBridge == [stdin |-> <<>>, pos |-> 0, stdout |-> <<>>, status |-> "none"]

Init ==
    /\ choices \in ChoiceLists
    /\ factors \in FactorLists
    /\ \E sl \in ScoreLists : scores = OrganizeScores(sl)
    /\ normalized_weights = NormalizeWeights(factors)
    /\ swept = 0
    /\ last = NoCall
    /\ outcome = NoOutcome
    /\ bridge = NoBridge

\* ------------------------------------------------------------------------
\* calculate_weighted_score
\* ------------------------------------------------------------------------
HasScores(cid) == \E k \in DOMAIN scores : k[1] = cid

\* the deterministic weighted score of a choice under weight table nw
WeightedScore(cid, nw) ==
    IF ~HasScores(cid) THEN Zero
    ELSE LET scored == {fid \in DOMAIN nw : <<cid, fid>> \in DOMAIN scores}
             term == [fid \in scored |->
                         RMul(FromInt(scores[<<cid, fid>>].score), nw[fid])]
         IN  RSum(term)

calculate_weighted_score(cid) == WeightedScore(cid, normalized_weights)

\* ------------------------------------------------------------------------
\* sensitivity_analysis
\* ------------------------------------------------------------------------
\* np.linspace(lo, hi, steps)[i], i counted from 0
Multiplier(lo, hi, steps, i) ==
    IF steps = 1 THEN lo
    ELSE RAdd(lo, RDiv(RMul(FromInt(i), RAdd(hi, RMul(FromInt(-1), lo))),
                       FromInt(steps - 1)))

\* max(d, key=d.get) over the keys of a dict in insertion order: the first
\* key whose value no other key exceeds
FirstMax(order, val) ==
    LET best == CHOOSE i \in DOMAIN order :
                   /\ \A j \in DOMAIN order : RLeq(val[order[j]], val[order[i]])
                   /\ \A j \in DOMAIN order :
                         (\A l \in DOMAIN order : RLeq(val[order[l]], val[order[j]]))
                            => i <= j
    IN  order[best]

\* {self.choices[cid].name: self.calculate_weighted_score(cid) for cid in
\* self.choices} under weight table nw: a key keeps the position of its
\* first insertion and the value of its last
NamedScores(nw) ==
    LET ids == ChoiceIdsOf(choices)
        names == KeyOrder([i \in DOMAIN ids |-> NameOf(choices, ids[i])])
        lastId(n) == ids[CHOOSE i \in DOMAIN ids :
                            /\ NameOf(choices, ids[i]) = n
                            /\ \A j \in DOMAIN ids :
                                  NameOf(choices, ids[j]) = n => j <= i]
    IN  [order |-> names,
         val |-> [n \in Range(names) |-> WeightedScore(lastId(n), nw)]]

\* the weight table in which only factor_id is set to w, renormalized
Renormalized(nw, factor_id, w) ==
    LET modified == [nw EXCEPT ![factor_id] = w]
        total == RSum(modified)
    IN  [k \in DOMAIN nw |-> RDiv(modified[k], total)]

\* the body of the loop for the sweep positions i .. steps - 1, starting
\* with the weight table nw and the entries collected so far; next to the
\* three fields of the code's entry, an entry records the table the scores
\* of its step were computed with
RECURSIVE Sweep(_, _, _, _, _, _, _)
Sweep(nw, results, original_weight, factor_id, range, steps, i) ==
    IF i >= steps
    THEN [nw |-> nw, analysis |-> results, error |-> "none"]
    ELSE
      LET multiplier == Multiplier(range[1], range[2], steps, i)
          test_weight == RMul(original_weight, multiplier)
      IN
      IF factor_id \notin DOMAIN nw
      THEN [nw |-> nw, analysis |-> results, error |-> "KeyError"]
      ELSE
        LET old_weight == nw[factor_id]
            temp_normalized == Renormalized(nw, factor_id, test_weight)
            named == NamedScores(temp_normalized)
        IN
        IF named.order = <<>>
        THEN \* max() of an empty dict raises; the table is not restored
             [nw |-> temp_normalized, analysis |-> results, error |-> "ValueError"]
        ELSE
          LET entry == [multiplier |-> multiplier,
                        scores |-> named.val,
                        winner |-> FirstMax(named.order, named.val),
                        weights |-> temp_normalized]
              restored == [temp_normalized EXCEPT ![factor_id] = old_weight]
          IN  Sweep(restored, Append(results, entry), original_weight,
                    factor_id, range, steps, i + 1)

\* the entries as the method returns them
Entries(results) ==
    [i \in DOMAIN results |-> [multiplier |-> results[i].multiplier,
                               scores |-> results[i].scores,
                               winner |-> results[i].winner]]

\* sensitivity_analysis without the final self.factors[factor_id] lookup
sensitivity_analysis_NoFactorLookup(factor_id, range, steps) ==
    /\ swept + steps <= MaxSwept
    /\ \E original_weight \in {IF factor_id \in DOMAIN normalized_weights
                               THEN normalized_weights[factor_id] ELSE One} :
       \E r \in {Sweep(normalized_weights, <<>>, original_weight,
                       factor_id, range, steps, 0)} :
          /\ normalized_weights' = r.nw
          /\ last' = [op |-> "sens", factor_id |-> factor_id, range |-> range,
                      steps |-> steps, pre_weights |-> normalized_weights,
                      step_weights |-> [i \in DOMAIN r.analysis |->
                                           r.analysis[i].weights]]
          /\ outcome' =
               IF r.error # "none"
               THEN [status |-> "error", error |-> r.error]
               ELSE [status |-> "ok",
                     report |-> [factor_id |-> factor_id,
                                 analysis |-> Entries(r.analysis)]]
    /\ swept' = swept + steps
    /\ UNCHANGED <<choices, factors, scores, bridge>>

sensitivity_analysis(factor_id, range, steps) ==
    /\ swept + steps <= MaxSwept
    /\ \E original_weight \in {IF factor_id \in DOMAIN normalized_weights
                               THEN normalized_weights[factor_id] ELSE One} :
       \E r \in {Sweep(normalized_weights, <<>>, original_weight,
                       factor_id, range, steps, 0)} :
          /\ normalized_weights' = r.nw
          /\ last' = [op |-> "sens", factor_id |-> factor_id, range |-> range,
                      steps |-> steps, pre_weights |-> normalized_weights,
                      step_weights |-> [i \in DOMAIN r.analysis |->
                                           r.analysis[i].weights]]
          /\ outcome' =
               IF r.error # "none"
               THEN [status |-> "error", error |-> r.error]
               ELSE IF factor_id \notin {factors[i].id : i \in DOMAIN factors}
               THEN \* self.factors[factor_id] raises
                    [status |-> "error", error |-> "KeyError"]
               ELSE [status |-> "ok",
                     report |-> [factor_id |-> factor_id,
                                 analysis |-> Entries(r.analysis)]]
    /\ swept' = swept + steps
    /\ UNCHANGED <<choices, factors, scores, bridge>>

\* ------------------------------------------------------------------------
\* simulate_once and run_simulation
\* ------------------------------------------------------------------------
Min(a, b) == IF a < b THEN a ELSE b
Max(a, b) == IF a < b THEN b ELSE a

\* the (choice, factor) pairs simulate_once visits: the choice is one of
\* self.choices, the factor a key of the weight table, and a Score exists
VisitedPairs ==
    {k \in DOMAIN scores :
        /\ k[1] \in Range(ChoiceIdsOf(choices))
        /\ k[2] \in DOMAIN normalized_weights}

\* the visited pairs for which simulate_once calls rng.normal
SampledPairs == {k \in VisitedPairs : scores[k].uncertainty > 0}

\* max(0, min(10, sampled))
Clamp(x) == Max(0, Min(10, x))

\* SampledValue with the clamp applied on both branches
SampledValue_ClampsAlways(k, draw) ==
    Clamp(IF scores[k].uncertainty > 0 THEN draw[k] ELSE scores[k].score)

\* the value of one (choice, factor) pair that enters the weighted total;
\* draw is what rng.normal returned for the pairs that are sampled
SampledValue(k, draw) ==
    IF scores[k].uncertainty > 0 THEN Clamp(draw[k]) ELSE scores[k].score

\* simulate_once in which a factor without a Score contributes the middle
\* of the scale instead of nothing
simulate_once_MissingAsMidpoint(cid, draw) ==
    LET term == [fid \in DOMAIN normalized_weights |->
                    RMul(FromInt(IF <<cid, fid>> \in DOMAIN scores
                                 THEN SampledValue(<<cid, fid>>, draw) ELSE 5),
                         normalized_weights[fid])]
    IN  RSum(term)

simulate_once(cid, draw) ==
    IF ~HasScores(cid) THEN Zero
    ELSE LET scored == {fid \in DOMAIN normalized_weights :
                           <<cid, fid>> \in DOMAIN scores}
             term == [fid \in scored |->
                         RMul(FromInt(SampledValue(<<cid, fid>>, draw)),
                              normalized_weights[fid])]
         IN  RSum(term)

\* Round with the guard `if round_scores:` turned into a test of the totals:
\* no win counter is incremented in an iteration whose totals are all 0
Round_NoWinnerWhenAllZero(ids, draw) ==
    LET round_scores == [cid \in Range(ids) |-> simulate_once(cid, draw)]
    IN  [round_scores |-> round_scores,
         fed |-> [k \in VisitedPairs |-> SampledValue(k, draw)],
         winner |-> IF \A cid \in Range(ids) : round_scores[cid] = Zero
                    THEN 0 ELSE FirstMax(ids, round_scores)]

\* one iteration of the loop: every choice's total, the values that went
\* into the totals, and the choice whose win counter is incremented
Round(ids, draw) ==
    LET round_scores == [cid \in Range(ids) |-> simulate_once(cid, draw)]
    IN  [round_scores |-> round_scores,
         fed |-> [k \in VisitedPairs |-> SampledValue(k, draw)],
         winner |-> IF ids = <<>> THEN 0 ELSE FirstMax(ids, round_scores)]

RECURSIVE SeqSum(_)
SeqSum(s) == IF s = <<>> THEN Zero ELSE RAdd(s[1], SeqSum(Tail(s)))

SeqMin(s) == CHOOSE x \in Range(s) : \A y \in Range(s) : RLeq(x, y)
SeqMax(s) == CHOOSE x \in Range(s) : \A y \in Range(s) : RLeq(y, x)

\* sorted(entries, key=mean, reverse=True): descending, and entries with
\* equal keys keep the order they had in the input
RECURSIVE SortedByMeanDesc(_)
SortedByMeanDesc(entries) ==
    IF entries = <<>> THEN <<>>
    ELSE LET rest == SortedByMeanDesc(SubSeq(entries, 1, Len(entries) - 1))
             x == entries[Len(entries)]
             p == Cardinality({i \in DOMAIN rest : RLeq(x.mean, rest[i].mean)})
         IN  SubSeq(rest, 1, p) \o <<x>> \o SubSeq(rest, p + 1, Len(rest))

\* {self.choices[cid].name: count / num_runs for cid, count in win_counts}
WinRates(ids, win_counts, num_runs) ==
    LET names == {NameOf(choices, ids[i]) : i \in DOMAIN ids}
        lastId(n) == ids[CHOOSE i \in DOMAIN ids :
                            /\ NameOf(choices, ids[i]) = n
                            /\ \A j \in DOMAIN ids :
                                  NameOf(choices, ids[j]) = n => j <= i]
    IN  [n \in names |-> Rat(win_counts[lastId(n)], num_runs)]

\* np.mean(abs(x - x.mean()) ** 2): np.std(results) is its square root, so
\* std is 0 exactly when the variance is 0
Variance(results, num_runs) ==
    LET m == RDiv(SeqSum(results), FromInt(num_runs))
        d(x) == RAdd(x, <<-m[1], m[2]>>)
    IN  RDiv(SeqSum([i \in DOMAIN results |-> RMul(d(results[i]), d(results[i]))]),
             FromInt(num_runs))

\* the per-choice statistics computed after the loop
Stats(cid, results, wins, num_runs) ==
    [choice_id |-> cid,
     name |-> NameOf(choices, cid),
     deterministic_score |-> calculate_weighted_score(cid),
     mean |-> RDiv(SeqSum(results), FromInt(num_runs)),
     min |-> SeqMin(results),
     max |-> SeqMax(results),
     variance |-> Variance(results, num_runs),
     win_rate |-> Rat(wins, num_runs)]

\* num_runs without the ceiling
ClampRuns_NoCeiling(requested) == requested

\* num_runs = min(num_runs, MAX_SIMULATION_RUNS)
ClampRuns(requested) == Min(requested, MAX_SIMULATION_RUNS)

\* the locals of the method are bound one after the other, as the code
\* computes them
run_simulation(requested, draws) ==
    \E num_runs \in {ClampRuns(requested)},
       ids \in {ChoiceIdsOf(choices)} :
    \E rounds \in {[r \in DOMAIN draws |-> Round(ids, draws[r])]} :
    \E all_results \in {[cid \in Range(ids) |->
                           [r \in DOMAIN rounds |-> rounds[r].round_scores[cid]]]},
       win_counts \in {[cid \in Range(ids) |->
                          Cardinality({r \in DOMAIN rounds : rounds[r].winner = cid})]} :
    /\ last' = [op |-> "run", requested |-> requested, num_runs |-> num_runs,
                rounds |-> rounds, all_results |-> all_results,
                win_counts |-> win_counts]
    /\ IF ids # <<>> /\ num_runs <= 0
       THEN \* np.min of an empty sample series raises
            outcome' = [status |-> "error", error |-> "ValueError"]
       ELSE \E choice_results \in
                 {[cid \in Range(ids) |->
                      Stats(cid, all_results[cid], win_counts[cid], num_runs)]} :
            outcome' =
              [status |-> "ok",
               report |-> [num_simulations |-> num_runs,
                           choice_results |-> choice_results,
                           rankings |-> SortedByMeanDesc(
                                           [i \in DOMAIN ids |-> choice_results[ids[i]]]),
                           win_rates |-> WinRates(ids, win_counts, num_runs)]]
    /\ UNCHANGED <<choices, factors, scores, normalized_weights, swept, bridge>>

\* range(num_runs) is empty for num_runs <= 0; every iteration draws once
\* for each sampled pair
RunCall ==
    \E requested \in NumRunsArgs :
        \E draws \in [1 .. Max(0, ClampRuns(requested)) ->
                         [SampledPairs -> Draws]] :
            run_simulation(requested, draws)

SensitivityCall ==
    \E f \in FactorArgs, range \in WeightRanges, steps \in StepsArgs :
        sensitivity_analysis(f, range, steps)

Next == RunCall \/ SensitivityCall

Spec == Init /\ [][Next]_vars

\* ------------------------------------------------------------------------
\* bridge.py: the request loop of main
\* ------------------------------------------------------------------------
\* number of lines on stdin
MaxLines == 3

\* what a line of stdin holds, as far as main and handle_request tell lines
\* apart:
\*   blank           empty after strip()
\*   invalid_json    json.loads raises JSONDecodeError
\*   non_object      valid JSON that is not an object (list, number, string..)
\*   unknown_action  an object whose action matches no branch
\*   missing_param   a known action whose params lack a required key
\*   raises          a known action whose handler raises (for instance
\*                   decision.simulate when the simulator raises)
\*   ping            a known action that succeeds
\*   shutdown        the shutdown action
LineKinds ==
    {"blank", "invalid_json", "non_object", "unknown_action", "missing_param",
     "raises", "ping", "shutdown"}

InputLines == UNION {[1 .. n -> LineKinds] : n \in 0 .. MaxLines}

\* {"ready": True}
Ready == [ready |-> TRUE]

\* the responses carry the number of the line they answer
success(i) == [success |-> TRUE, line |-> i]
error(i) == [success |-> FALSE, line |-> i]

\* handle_request on the value parsed from line i: request.get("action")
\* and request.get("params", {}) are evaluated before the try block, so a
\* value without .get raises out of the function; everything raised inside
\* the try block becomes an error response
handle_request(kind, i) ==
    IF kind = "non_object"
    THEN [raised |-> TRUE]
    ELSE [raised |-> FALSE,
          response |-> IF kind \in {"ping", "shutdown"} THEN success(i)
                       ELSE error(i)]

\* main up to the loop: the ready line is written
main_start ==
    /\ bridge.status = "starting"
    /\ bridge' = [bridge EXCEPT !.stdout = Append(@, Ready),
                                !.status = "running"]
    /\ UNCHANGED <<choices, factors, scores, normalized_weights, swept, last,
                   outcome>>

\* one iteration of `for line in sys.stdin`, or the end of the loop when
\* stdin is exhausted
main_iteration ==
    /\ bridge.status = "running"
    /\ IF bridge.pos = Len(bridge.stdin)
       THEN bridge' = [bridge EXCEPT !.status = "ended"]
       ELSE
         LET i == bridge.pos + 1
             line == bridge.stdin[i]
         IN
         IF line = "blank"
         THEN bridge' = [bridge EXCEPT !.pos = i]
         ELSE IF line = "invalid_json"
         THEN bridge' = [bridge EXCEPT !.pos = i,
                                       !.stdout = Append(@, error(i))]
         ELSE
           LET h == handle_request(line, i)
           IN  IF h.raised
               THEN \* the exception leaves main: the process ends
                    bridge' = [bridge EXCEPT !.pos = i, !.status = "crashed"]
               ELSE bridge' = [bridge EXCEPT
                                 !.pos = i,
                                 !.stdout = Append(@, h.response),
                                 !.status = IF line = "shutdown"
                                            THEN "stopped" ELSE "running"]
    /\ UNCHANGED <<choices, factors, scores, normalized_weights, swept, last,
                   outcome>>

\* the bridge process started on some input; it builds a simulator for each
\* decision.simulate request and keeps none, so no simulator state is held
InitBridge ==
    /\ choices = <<>>
    /\ factors = <<>>
    /\ scores = OrganizeScores(<<>>)
    /\ normalized_weights = NormalizeWeights(<<>>)
    /\ swept = 0
    /\ last = NoCall
    /\ outcome = NoOutcome
    /\ \E s \in InputLines :
          bridge = [stdin |-> s, pos |-> 0, stdout |-> <<>>, status |-> "starting"]

NextBridge == main_start \/ main_iteration

SpecBridge == InitBridge /\ [][NextBridge]_vars

\* ------------------------------------------------------------------------
\* Properties
\* ------------------------------------------------------------------------
ChoiceSet == Range(ChoiceIdsOf(choices))
IsRun == last.op = "run"
IsSweep == last.op = "sens"
Returned == outcome.status = "ok"

\* C1: a sensitivity_analysis call that returns, made for an existing factor
\* with steps >= 1, leaves normalized_weights equal to the table held before
\* the call.
C1_SweepKeepsWeights ==
    (IsSweep /\ Returned /\ last.steps >= 1)
        => normalized_weights = last.pre_weights

\* the name-keyed deterministic scores under a fresh copy of table nw in
\* which only factor_id is scaled by m and the copy is renormalized
FreshScores(nw, factor_id, m) ==
    NamedScores(Renormalized(nw, factor_id, RMul(nw[factor_id], m))).val

\* C2: the scores recorded for every multiplier of a sweep equal the scores
\* computed from a fresh, renormalized copy of the weights held before the
\* call, whatever multipliers came earlier.
C2_StepsIndependent ==
    (IsSweep /\ Returned)
        => \A i \in DOMAIN outcome.report.analysis :
              LET e == outcome.report.analysis[i]
              IN  e.scores = FreshScores(last.pre_weights, last.factor_id, e.multiplier)

\* C3: the scores recorded for the multiplier 1.0, at any position of the
\* sweep, equal the deterministic scores computed before the sweep started.
C3_UnitMultiplierUnperturbed ==
    (IsSweep /\ Returned)
        => \A i \in DOMAIN outcome.report.analysis :
              LET e == outcome.report.analysis[i]
              IN  e.multiplier = One => e.scores = NamedScores(last.pre_weights).val

\* C4: for a non-empty factor list with positive total raw weight the values
\* of normalized_weights sum to 1 in every reachable state.
C4_WeightsSumToOne ==
    (factors # <<>> /\ SumWeights(factors) > 0)
        => RSum(normalized_weights) = One

\* C5: in every iteration of run_simulation the winner has the maximum total
\* of the iteration, and among several choices with the maximum total it is
\* the one with the smallest id.
C5_WinnerSmallestIdOnTie ==
    (IsRun /\ choices # <<>>)
        => \A r \in DOMAIN last.rounds :
              LET rs == last.rounds[r].round_scores
                  w == last.rounds[r].winner
              IN  /\ w \in ChoiceSet
                  /\ \A c \in ChoiceSet : RLeq(rs[c], rs[w])
                  /\ \A c \in ChoiceSet : rs[c] = rs[w] => w <= c

\* C6: rankings holds every choice's statistics exactly once, by mean
\* descending, and choices of equal mean are in ascending id order.
C6_RankingsTieAscendingId ==
    (IsRun /\ Returned)
        => LET rk == outcome.report.rankings
           IN  /\ Len(rk) = Cardinality(ChoiceSet)
               /\ \A c \in ChoiceSet :
                     \E i \in DOMAIN rk : rk[i] = outcome.report.choice_results[c]
               /\ \A i, j \in DOMAIN rk :
                     i < j => /\ RLeq(rk[j].mean, rk[i].mean)
                              /\ rk[i].mean = rk[j].mean
                                    => rk[i].choice_id < rk[j].choice_id

\* C7: with at least one choice and num_runs >= 1 the call returns, the win
\* counters sum to the number of iterations executed, which is the clamped
\* num_runs, and the win_rate values of choice_results sum to 1.
C7_WinsSumToRuns ==
    (IsRun /\ choices # <<>> /\ last.requested >= 1)
        => /\ Returned
           /\ Len(last.rounds) = last.num_runs
           /\ RSum([c \in ChoiceSet |-> FromInt(last.win_counts[c])])
                 = FromInt(last.num_runs)
           /\ RSum([c \in ChoiceSet |-> outcome.report.choice_results[c].win_rate])
                 = One

\* a run of two iterations over two choices in which both choices won once
C7_Witness ==
    /\ IsRun /\ Returned
    /\ last.num_runs = 2
    /\ Cardinality(ChoiceSet) = 2
    /\ \A c \in ChoiceSet : last.win_counts[c] = 1

\* C8: every per-(choice, factor) value that enters a weighted total lies in
\* [0, 10], sampled or not.
C8_FedValuesInRange ==
    IsRun => \A r \in DOMAIN last.rounds :
                \A k \in DOMAIN last.rounds[r].fed :
                    /\ 0 <= last.rounds[r].fed[k]
                    /\ last.rounds[r].fed[k] <= 10

\* C9: a run over scores that contain an entry with negative uncertainty
\* fails with ValidationError and produces no report.
C9_NegativeUncertaintyRejected ==
    (IsRun /\ \E k \in DOMAIN scores : scores[k].uncertainty < 0)
        => /\ outcome.status = "error"
           /\ outcome.error = "ValidationError"

\* C10: run_simulation with num_runs <= 0 fails with ValidationError and
\* returns no report.
C10_NonPositiveRunsRejected ==
    (IsRun /\ last.requested <= 0)
        => /\ outcome.status = "error"
           /\ outcome.error = "ValidationError"

\* C11: run_simulation on a simulator built with an empty choice list fails
\* with ValidationError and returns no report.
C11_EmptyChoicesRejected ==
    (IsRun /\ choices = <<>>)
        => /\ outcome.status = "error"
           /\ outcome.error = "ValidationError"

FactorIds == {factors[i].id : i \in DOMAIN factors}

\* C12 as amended: sensitivity_analysis for a factor_id that is not among
\* the supplied factors fails with KeyError for every steps value, steps = 0
\* included, returns no report and leaves normalized_weights unchanged.
C12_UnknownFactorKeyError ==
    (IsSweep /\ last.factor_id \notin FactorIds)
        => /\ outcome.status = "error"
           /\ outcome.error = "KeyError"
           /\ normalized_weights = last.pre_weights

\* C12 as stated: the failure is a NotFoundError.
C12_UnknownFactorNotFoundError ==
    (IsSweep /\ last.factor_id \notin FactorIds)
        => /\ outcome.status = "error"
           /\ outcome.error = "NotFoundError"
           /\ normalized_weights = last.pre_weights

\* an empty sweep for an unknown factor on a simulator that has factors
C12_Witness ==
    /\ IsSweep
    /\ factors # <<>>
    /\ last.factor_id \notin FactorIds
    /\ last.steps = 0
    /\ outcome.status = "error"

\* C13: a request of num_runs >= 1, above the ceiling included, returns; the
\* loop runs min(num_runs, MAX_SIMULATION_RUNS) iterations, that number is
\* reported as num_simulations, is the length of every sample series and is
\* the divisor of every win rate.
C13_RunsClampedToCeiling ==
    (IsRun /\ last.requested >= 1)
        => LET n == IF last.requested > MAX_SIMULATION_RUNS
                    THEN MAX_SIMULATION_RUNS ELSE last.requested
           IN  /\ Returned
               /\ Len(last.rounds) = n
               /\ outcome.report.num_simulations = n
               /\ \A c \in ChoiceSet :
                     /\ Len(last.all_results[c]) = n
                     /\ outcome.report.choice_results[c].win_rate
                           = RDiv(FromInt(last.win_counts[c]), FromInt(n))

\* a request above the ceiling over two choices
C13_Witness ==
    /\ IsRun /\ Returned
    /\ last.requested > MAX_SIMULATION_RUNS
    /\ Cardinality(ChoiceSet) = 2
    /\ outcome.report.num_simulations = MAX_SIMULATION_RUNS

\* the total of a choice computed from the values fed in one iteration,
\* under weight table nw
TotalUnder(nw, cid, fed) ==
    IF ~HasScores(cid) THEN Zero
    ELSE LET scored == {fid \in DOMAIN nw : <<cid, fid>> \in DOMAIN scores}
         IN  RSum([fid \in scored |-> RMul(FromInt(fed[<<cid, fid>>]), nw[fid])])

\* C14: an execution of run_simulation gives the sample series and the
\* winners that the execution with the same num_runs and the same random
\* stream gives on the simulator as constructed from the same choices,
\* factors and scores.
C14_SameSeedSameSeries ==
    IsRun
        => \A r \in DOMAIN last.rounds :
              LET fresh == [c \in ChoiceSet |->
                               TotalUnder(NormalizeWeights(factors), c,
                                          last.rounds[r].fed)]
              IN  /\ last.rounds[r].round_scores = fresh
                  /\ choices # <<>>
                        => last.rounds[r].winner
                              = FirstMax(ChoiceIdsOf(choices), fresh)

\* every Score of choice c has uncertainty 0
AllCertain(c) == \A k \in DOMAIN scores : k[1] = c => scores[k].uncertainty = 0

\* one factor and two choices, scored 8 and 5 with uncertainty 0
EightAndFive ==
    /\ Len(factors) = 1
    /\ ChoiceIdsOf(choices) = <<1, 2>>
    /\ DOMAIN scores = {<<1, factors[1].id>>, <<2, factors[1].id>>}
    /\ scores[<<1, factors[1].id>>].score = 8
    /\ scores[<<2, factors[1].id>>].score = 5
    /\ AllCertain(1) /\ AllCertain(2)

SmallestIdOfBest(nw) ==
    CHOOSE c \in ChoiceSet :
        /\ \A d \in ChoiceSet : RLeq(WeightedScore(d, nw), WeightedScore(c, nw))
        /\ \A d \in ChoiceSet :
              WeightedScore(d, nw) = WeightedScore(c, nw) => c <= d

\* C16: in every step of sensitivity_analysis the recorded winner names the
\* choice with the maximum deterministic weighted score under the weights of
\* that step, the one with the smallest id when several choices tie.
C16_SweepWinnerSmallestIdOnTie ==
    (IsSweep /\ Returned)
        => \A i \in DOMAIN outcome.report.analysis :
              outcome.report.analysis[i].winner
                 = NameOf(choices, SmallestIdOfBest(last.step_weights[i]))

\* C17: as long as no sweep has touched the table built by the constructor,
\* a non-empty factor list of total raw weight 0 has the weight 1/n for
\* every factor, n the number of factors, and an empty factor list has the
\* empty table.
C17_ZeroTotalGivesUniformWeights ==
    swept = 0
        => /\ (factors # <<>> /\ SumWeights(factors) = 0)
                 => /\ DOMAIN normalized_weights = FactorIds
                    /\ \A i \in DOMAIN factors :
                          normalized_weights[factors[i].id] = Rat(1, Len(factors))
           /\ factors = <<>> => DOMAIN normalized_weights = {}

C17_Witness ==
    /\ IsRun /\ Returned /\ swept = 0
    /\ Len(factors) = 2
    /\ SumWeights(factors) = 0
    /\ \A i \in DOMAIN factors : normalized_weights[factors[i].id] = Rat(1, 2)

\* what factor fid adds to a total of choice c when the value v is used for
\* an existing Score: nothing when the pair has no Score
Contribution(c, fid, v) ==
    IF <<c, fid>> \in DOMAIN scores
    THEN RMul(FromInt(v), normalized_weights[fid]) ELSE Zero

\* C18: a run with num_runs >= 1 returns a report that contains every
\* choice; in it a factor without a Score for a choice adds 0 to the
\* deterministic weighted score and to every per-run total of the choice,
\* and a choice without any Score has total 0 in every run.
C18_MissingScoreContributesZero ==
    (IsRun /\ last.num_runs >= 1)
        => /\ Returned
           /\ DOMAIN outcome.report.choice_results = ChoiceSet
           /\ \A c \in ChoiceSet :
                 /\ outcome.report.choice_results[c].deterministic_score
                       = RSum([fid \in DOMAIN normalized_weights |->
                                  Contribution(c, fid,
                                     IF <<c, fid>> \in DOMAIN scores
                                     THEN scores[<<c, fid>>].score ELSE 0)])
                 /\ \A r \in DOMAIN last.rounds :
                       last.all_results[c][r]
                          = RSum([fid \in DOMAIN normalized_weights |->
                                     Contribution(c, fid,
                                        IF <<c, fid>> \in DOMAIN scores
                                        THEN last.rounds[r].fed[<<c, fid>>] ELSE 0)])
                 /\ ~HasScores(c)
                       => /\ outcome.report.choice_results[c].deterministic_score = Zero
                          /\ \A r \in DOMAIN last.all_results[c] :
                                last.all_results[c][r] = Zero

\* a choice without any Score next to a choice that has Scores
C18_Witness ==
    /\ IsRun /\ Returned /\ last.num_runs = MAX_SIMULATION_RUNS
    /\ normalized_weights # <<>>
    /\ \E c, d \in ChoiceSet :
          /\ ~HasScores(c) /\ HasScores(d)
          /\ outcome.report.choice_results[c].max = Zero
          /\ outcome.report.choice_results[d].win_rate = One

\* a choice that has a Score on one factor of the table and none on another
C18_PartialWitness ==
    /\ IsRun /\ Returned
    /\ \E c \in ChoiceSet : \E f, g \in DOMAIN normalized_weights :
          /\ <<c, f>> \in DOMAIN scores /\ <<c, g>> \notin DOMAIN scores
          /\ normalized_weights[g] # Zero

\* the numbers of the non-blank lines among the first n lines, in order
NonBlank(n) ==
    SelectSeq([i \in 1 .. n |-> i], LAMBDA i : bridge.stdin[i] # "blank")

\* C19: once the ready line is written, the process never ends on an
\* exception; the responses written so far answer the non-blank lines read so
\* far, one each and in order; a response has success = TRUE exactly for a
\* request that was carried out; and no line is read after a shutdown
\* request.
C19_BridgeProtocol ==
    bridge.status \in {"running", "stopped", "ended", "crashed"}
        => /\ bridge.status # "crashed"
           /\ bridge.stdout[1] = Ready
           /\ LET resp == Tail(bridge.stdout)
                  asked == NonBlank(bridge.pos)
              IN  /\ Len(resp) = Len(asked)
                  /\ \A j \in DOMAIN resp :
                        j \in DOMAIN asked
                           => /\ resp[j].line = asked[j]
                              /\ resp[j].success
                                    = (bridge.stdin[asked[j]] \in {"ping", "shutdown"})
           /\ \A i \in 1 .. (bridge.pos - 1) : bridge.stdin[i] # "shutdown"
           /\ bridge.status = "stopped" => bridge.stdin[bridge.pos] = "shutdown"

\* C20: in the report of a run with at least one choice and num_runs >= 1,
\* win_rates has exactly one entry per choice, the entry of a choice is the
\* win_rate of that choice in choice_results, and the entries sum to 1.
C20_WinRatesAgreeWithChoiceResults ==
    (IsRun /\ Returned /\ choices # <<>> /\ last.num_runs >= 1)
        => LET win_rates == outcome.report.win_rates
           IN  /\ Cardinality(DOMAIN win_rates) = Cardinality(ChoiceSet)
               /\ \A c \in ChoiceSet :
                     win_rates[NameOf(choices, c)]
                        = outcome.report.choice_results[c].win_rate
               /\ RSum(win_rates) = One

\* a rational in [0, 10]
InScale(x) == RLeq(Zero, x) /\ RLeq(x, FromInt(10))

\* C21: when every score lies in [0, 10] and every raw factor weight is
\* >= 0, every per-run total of a run and every deterministic_score of its
\* report lies in [0, 10], whatever calls were made on the simulator before.
C21_TotalsWithinScale ==
    (/\ IsRun
     /\ \A k \in DOMAIN scores : scores[k].score \in 0 .. 10
     /\ \A i \in DOMAIN factors : factors[i].weight >= 0)
        => /\ \A c \in ChoiceSet : \A r \in DOMAIN last.all_results[c] :
                 InScale(last.all_results[c][r])
           /\ Returned
                 => \A c \in ChoiceSet :
                       InScale(outcome.report.choice_results[c].deterministic_score)

====
